---- MODULE Spec2Model ----
(***************************************************************************)
(* Corporate Buzzword Generator API (src/app.py).                          *)
(*                                                                         *)
(* Python strings are TLA+ strings (sequences of characters); a character  *)
(* is a string of length 1.  The four non-ASCII characters of the phrase   *)
(* banks are written with ASCII stand-ins that occur nowhere else in the   *)
(* tables or the inputs:                                                   *)
(*     "@"  U+2022 bullet          "~"  U+2014 em dash                     *)
(*     "|"  U+2019 right quote     "^"  U+1F642 smiling face               *)
(***************************************************************************)
EXTENDS Integers, Sequences, FiniteSets, TLC

VARIABLES
    pc,            \* position of the call in the single-call specifications
    text,          \* to_bullets: argument
    bullets,       \* to_bullets: returned list
    s,             \* buzzwordify: req.text
    intensity,     \* buzzwordify: req.intensity
    transformed,   \* buzzwordify: response["transformed"]
    rng,           \* the state of the process-wide generator of module random
    workers,       \* /polish: the threads handling a request, each with its
                   \* request, its position in the handler and its locals
    PROXY_SECRET,  \* os.getenv("PROXY_SECRET"): <<>> is None, <<v>> the value v
    request,       \* the incoming request: its route and its proxy header
    response       \* what the service answered

bulletVars == <<text, bullets>>
buzzVars == <<s, intensity, transformed>>
polishVars == <<rng, workers>>
authVars == <<PROXY_SECRET, request, response>>

vars == <<pc, bulletVars, buzzVars, polishVars, authVars>>

----------------------------------------------------------------------------
(* Characters and the str methods the code uses                            *)

Ch(str, i) == SubSeq(str, i, i)

UPPER == "ABCDEFGHIJKLMNOPQRSTUVWXYZ"
LOWER == "abcdefghijklmnopqrstuvwxyz"
DIGITS == "0123456789_"

CharsOf(str) == {Ch(str, i) : i \in 1..Len(str)}

\* \w of the re module: letters, digits and the underscore
WordChars == CharsOf(UPPER) \cup CharsOf(LOWER) \cup CharsOf(DIGITS)

\* \s of the re module and the characters str.strip() removes
Whitespace == {" ", "\t", "\n", "\r", "\f"}

UpperChars == CharsOf(UPPER)

LowerOf == [c \in UpperChars |-> Ch(LOWER, CHOOSE i \in 1..Len(UPPER) : Ch(UPPER, i) = c)]

LowerCh(c) == IF c \in UpperChars THEN LowerOf[c] ELSE c

RECURSIVE Lower(_)
\* str.lower(), character by character (the string is halved to keep the
\* evaluation shallow)
Lower(str) ==
    IF Len(str) = 0 THEN ""
    ELSE IF Len(str) = 1 THEN LowerCh(str)
    ELSE Lower(SubSeq(str, 1, Len(str) \div 2))
            \o Lower(SubSeq(str, (Len(str) \div 2) + 1, Len(str)))

RECURSIVE LStrip(_, _)
LStrip(str, chars) ==
    IF str # "" /\ Head(str) \in chars THEN LStrip(Tail(str), chars) ELSE str

RECURSIVE RStrip(_, _)
RStrip(str, chars) ==
    IF str # "" /\ Ch(str, Len(str)) \in chars
    THEN RStrip(SubSeq(str, 1, Len(str) - 1), chars)
    ELSE str

\* str.strip(chars); str.strip() is Strip(str, Whitespace)
Strip(str, chars) == RStrip(LStrip(str, chars), chars)

RECURSIVE Join(_, _)
\* sep.join(parts)
Join(sep, parts) ==
    IF parts = <<>> THEN ""
    ELSE IF Len(parts) = 1 THEN parts[1]
    ELSE parts[1] \o sep \o Join(sep, Tail(parts))

\* parts[:n]
Take(parts, n) == SubSeq(parts, 1, IF Len(parts) < n THEN Len(parts) ELSE n)

StartsAt(str, i, lit) ==
    i + Len(lit) - 1 <= Len(str) /\ SubSeq(str, i, i + Len(lit) - 1) = lit

Contains(str, lit) == \E i \in 1..(Len(str) - Len(lit) + 1) : StartsAt(str, i, lit)

----------------------------------------------------------------------------
(* to_bullets                                                              *)

\* Length of the delimiter r"\n|;|\s-\s" matching at position i, 0 if none.
\* The alternatives are tried in order, so a newline is always a delimiter
\* of length 1, also when it starts "\n-\n".
DelimiterAt(str, i) ==
    IF Ch(str, i) = "\n" \/ Ch(str, i) = ";" THEN 1
    ELSE IF /\ i + 2 <= Len(str)
            /\ Ch(str, i) \in Whitespace
            /\ Ch(str, i + 1) = "-"
            /\ Ch(str, i + 2) \in Whitespace THEN 3
    ELSE 0

\* the least element of a non-empty set of positions
Least(positions) == CHOOSE i \in positions : \A j \in positions : i <= j

RECURSIVE SplitFrom(_, _)
\* re.split from position start: the fragment up to the leftmost delimiter
\* at or after start, then the split of what follows that delimiter
SplitFrom(str, start) ==
    LET found == {i \in start..Len(str) : DelimiterAt(str, i) > 0}
    IN  IF found = {} THEN <<SubSeq(str, start, Len(str))>>
        ELSE <<SubSeq(str, start, Least(found) - 1)>>
                \o SplitFrom(str, Least(found) + DelimiterAt(str, Least(found)))

\* re.split(r"\n|;|\s-\s", text)
Split(str) == SplitFrom(str, 1)

StripChars == {" ", "-", "*", "\t"}

RECURSIVE Cleaned(_)
\* [x.strip(" -*\t") for x in raw if x and x.strip()]
Cleaned(raw) ==
    IF raw = <<>> THEN <<>>
    ELSE LET x == Head(raw)
         IN  IF x # "" /\ Strip(x, Whitespace) # ""
             THEN <<Strip(x, StripChars)>> \o Cleaned(Tail(raw))
             ELSE Cleaned(Tail(raw))

\* a dedup that compares the bullets as written
CaseSensitiveKey(b) == b

\* b.lower()
DedupKey(b) == Lower(b)

RECURSIVE Dedup(_, _)
\* the loop over bullets with the set 'seen'
Dedup(bs, seen) ==
    IF bs = <<>> THEN <<>>
    ELSE LET b == Head(bs)
         IN  IF DedupKey(b) \notin seen
             THEN <<b>> \o Dedup(Tail(bs), seen \cup {DedupKey(b)})
             ELSE Dedup(Tail(bs), seen)

MaxBullets == 8

to_bullets(str) == Take(Dedup(Cleaned(Split(str)), {}), MaxBullets)

----------------------------------------------------------------------------
(* Inputs of to_bullets: every text over BulletAlphabet up to MaxTextLen   *)
(* characters, and longer texts that reach the cap and the other           *)
(* separators.                                                             *)

MaxTextLen == 4

BulletAlphabet == {"a", "A", "b", ";", " ", "-", "\n"}

RECURSIVE StringsOfLen(_, _)
StringsOfLen(alphabet, n) ==
    IF n = 0 THEN {""}
    ELSE {c \o w : c \in alphabet, w \in StringsOfLen(alphabet, n - 1)}

StringsUpTo(alphabet, n) == UNION {StringsOfLen(alphabet, k) : k \in 0..n}

LongTexts ==
    { "a; b - c\nA",
      "1;2;3;4;5;6;7;8;9;10",
      "a;A;b;B;c;C;d;D;e;E;f;g;h;i;j;k",
      "one\ntwo\n* three\n- four\nfive;six;seven;eight;nine;ONE",
      "x;-;y;*;X",
      "a\t-\tb;\r-;c",
      "a - -  - b",
      "Fix the bug - ship it; fix THE bug" }

BulletTexts == StringsUpTo(BulletAlphabet, MaxTextLen) \cup LongTexts

----------------------------------------------------------------------------
(* apply_buzzwords                                                         *)

\* BUZZWORD_MAP_LEVELS[lvl] is BUZZWORD_MAP_LEVELS[lvl + 1] here (sequences
\* start at 1); a level lists its <<pattern, replacement>> pairs in the
\* dict's insertion order, which is the order .items() yields.
BUZZWORD_MAP_LEVELS ==
    << <<>>,
       << <<"help", "support">>,
          <<"ask", "request">>,
          <<"finish", "complete">>,
          <<"start", "kick off">>,
          <<"check", "review">>,
          <<"talk", "sync">>,
          <<"plan", "roadmap">>,
          <<"fix", "resolve">>,
          <<"problem", "issue">>,
          <<"delay", "slippage">>,
          <<"fast", "expedited">>,
          <<"slow", "deprioritized">>,
          <<"meet", "connect">> >>,
       << <<"do", "execute">>,
          <<"make", "build">>,
          <<"try", "explore">>,
          <<"change", "iterate">>,
          <<"improve", "optimize">>,
          <<"decide", "align on a decision">>,
          <<"team", "cross-functional team">>,
          <<"work together", "collaborate">>,
          <<"because", "so that">>,
          <<"goal", "north star">>,
          <<"idea", "proposal">> >>,
       << <<"use", "leverage">>,
          <<"use (?!case)", "utilize">>,
          <<"result", "outcome">>,
          <<"plan", "strategic roadmap">>,
          <<"meeting", "working session">>,
          <<"deadline", "target date">>,
          <<"notes?", "takeaways">>,
          <<"OK", "actionable">>,
          <<"good", "impactful">>,
          <<"bad", "non-optimal">>,
          <<"next", "forward-looking">> >> >>

\* \b at position i: exactly one of the characters before and at i is a
\* word character (outside the string counts as a non-word character)
Boundary(str, i) ==
    (i > 1 /\ Ch(str, i - 1) \in WordChars) # (i <= Len(str) /\ Ch(str, i) \in WordChars)

\* position of the ")" closing the group that opens at j
GroupEnd(pat, j) == CHOOSE k \in j..Len(pat) :
    Ch(pat, k) = ")" /\ \A l \in j..(k - 1) : Ch(pat, l) # ")"

RECURSIVE MatchEnd(_, _, _, _)
\* The backtracking match of pat[j..] followed by \b against the lowered
\* text low at position i: the position after the match, 0 if there is none.
\* The patterns of the table use literal characters, "c?" (greedy) and the
\* negative lookahead "(?!literal)".
MatchEnd(pat, j, low, i) ==
    IF j > Len(pat) THEN (IF Boundary(low, i) THEN i ELSE 0)
    ELSE IF StartsAt(pat, j, "(?!")
    THEN LET k == GroupEnd(pat, j)
         IN  IF StartsAt(low, i, SubSeq(pat, j + 3, k - 1)) THEN 0
             ELSE MatchEnd(pat, k + 1, low, i)
    ELSE IF j + 1 <= Len(pat) /\ Ch(pat, j + 1) = "?"
    THEN LET taken == IF i <= Len(low) /\ Ch(low, i) = Ch(pat, j)
                      THEN MatchEnd(pat, j + 2, low, i + 1) ELSE 0
         IN  IF taken > 0 THEN taken ELSE MatchEnd(pat, j + 2, low, i)
    ELSE IF i <= Len(low) /\ Ch(low, i) = Ch(pat, j)
    THEN MatchEnd(pat, j + 1, low, i + 1)
    ELSE 0

\* the position after the match of rf"\b{pat}\b" at position i, 0 if none
MatchAt(pat, low, i) ==
    LET e == MatchEnd(pat, 1, low, i)
    IN  IF e > 0 /\ Boundary(low, i) THEN e ELSE 0

RECURSIVE SubFrom(_, _, _, _, _, _)
\* re.sub scanning from position i: every non-overlapping match, leftmost
\* first, is replaced by rep; starts are the positions where the pattern
\* matches
SubFrom(pat, rep, str, low, starts, i) ==
    LET ahead == {j \in starts : j >= i}
    IN  IF ahead = {} THEN SubSeq(str, i, Len(str))
        ELSE SubSeq(str, i, Least(ahead) - 1) \o rep
                \o SubFrom(pat, rep, str, low, starts, MatchAt(pat, low, Least(ahead)))

\* re.sub(rf"\b{pat}\b", rep, out, flags=re.IGNORECASE)
Sub(pat, rep, str) ==
    LET low == Lower(str)
        lpat == Lower(pat)
        \* every pattern of the table starts with a literal character
        starts == {i \in 1..Len(str) : Ch(low, i) = Ch(lpat, 1) /\ MatchAt(lpat, low, i) > i}
    IN  SubFrom(lpat, rep, str, low, starts, 1)

RECURSIVE ApplyPairs(_, _, _)
\* for pat, rep in BUZZWORD_MAP_LEVELS[lvl].items(): out = re.sub(...)
\* (comparing next with out has the substitution evaluated here, before
\* the next round, which keeps the evaluation shallow)
ApplyPairs(pairs, k, out) ==
    IF k > Len(pairs) THEN out
    ELSE LET next == Sub(pairs[k][1], pairs[k][2], out)
         IN  IF next = out THEN ApplyPairs(pairs, k + 1, out)
             ELSE ApplyPairs(pairs, k + 1, next)

RECURSIVE ApplyLevelsShort(_, _, _)
\* the loop with range(1, intensity): the last level is left out
ApplyLevelsShort(lvl, upto, out) ==
    IF lvl >= upto THEN out
    ELSE LET next == ApplyPairs(BUZZWORD_MAP_LEVELS[lvl + 1], 1, out)
         IN  IF next = out THEN ApplyLevelsShort(lvl + 1, upto, out)
             ELSE ApplyLevelsShort(lvl + 1, upto, next)

RECURSIVE ApplyLevels(_, _, _)
\* for lvl in range(1, intensity + 1), from lvl on
ApplyLevels(lvl, upto, out) ==
    IF lvl > upto THEN out
    ELSE LET next == ApplyPairs(BUZZWORD_MAP_LEVELS[lvl + 1], 1, out)
         IN  IF next = out THEN ApplyLevels(lvl + 1, upto, out)
             ELSE ApplyLevels(lvl + 1, upto, next)

apply_buzzwords(str, level) ==
    IF level <= 0 THEN str ELSE ApplyLevels(1, level, str)

----------------------------------------------------------------------------
(* Inputs of /buzzwordify: texts of up to MaxPieces pieces                 *)

MaxPieces == 3

MaxIntensity == 3

BuzzPieces == {" ", "use", "Use", "case", "plan", "note", "s"}

RECURSIVE PiecesOfLen(_, _)
PiecesOfLen(pieces, n) ==
    IF n = 0 THEN {""}
    ELSE {p \o w : p \in pieces, w \in PiecesOfLen(pieces, n - 1)}

BuzzSamples ==
    { "use tools", "the use case", "Use the plan", "we use cases daily",
      "notes note noted", "OK, work together because the team is good",
      "help me plan a meeting to fix the delay", "useful reuse; use-case",
      "Do not ask: decide next" }

BuzzTexts == UNION {PiecesOfLen(BuzzPieces, k) : k \in 0..MaxPieces} \cup BuzzSamples

----------------------------------------------------------------------------
(* Phrase banks                                                            *)

SIGN_OFF ==
    "email" :> <<
            "Best regards,",
            "Kind regards,",
            "Thanks,",
            "Sincerely,",
            "Warm regards," >> @@
    "slack" :> <<
            "Thanks!",
            "Appreciate it!",
            "Cheers!",
            "~ thanks" >> @@
    "teams" :> <<
            "Thanks!",
            "Appreciated.",
            "Cheers!" >> @@
    "whatsapp" :> <<
            "Thanks!",
            "Much appreciated.",
            "Cheers!" >> @@
    "text" :> <<
            "Thanks!",
            "Appreciate it." >> @@
    "doc" :> <<
            "" >>

OPENERS ==
    "formal" :> <<
            "Hope you are doing well.",
            "I wanted to reach out regarding the following.",
            "Following up on the item below.",
            "Sharing a quick update." >> @@
    "casual" :> <<
            "Quick update:",
            "Heads up~",
            "FYI~",
            "Ping on this:" >> @@
    "executive" :> <<
            "Executive summary:",
            "At a glance:",
            "Top line:",
            "Key call-outs:" >> @@
    "empathetic" :> <<
            "I understand this is time-sensitive.",
            "Appreciate the effort here.",
            "Thanks for your patience~",
            "Completely understand the context." >> @@
    "assertive" :> <<
            "We need a decision to unblock progress.",
            "Action required to stay on track.",
            "To hit our target, we need the following.",
            "Flagging a blocker:" >> @@
    "friendly" :> <<
            "Quick one ^",
            "Hope your day|s going well!",
            "Just checking in~",
            "Sharing a quick note~" >> @@
    "persuasive" :> <<
            "Here|s why this approach works:",
            "The data strongly supports this.",
            "This will help us deliver faster with less risk.",
            "Recommended path forward:" >>

EMAIL_SUBJECT_PREFIX ==
    "formal" :> <<
            "Update:",
            "Request:",
            "Follow-up:",
            "Action needed:" >> @@
    "executive" :> <<
            "Summary:",
            "Heads-up:",
            "Decision needed:",
            "Risks & Next Steps:" >> @@
    "assertive" :> <<
            "Blocker:",
            "Decision required:",
            "Deadline risk:" >> @@
    "empathetic" :> <<
            "Appreciate your help:",
            "Thanks & quick ask:",
            "Thanks for the support:" >> @@
    "casual" :> <<
            "Quick update:",
            "Small ask:",
            "Heads-up:" >> @@
    "friendly" :> <<
            "Hey~quick one:",
            "Tiny ask:",
            "Quick sync?" >> @@
    "persuasive" :> <<
            "Proposal:",
            "Why this works:",
            "Recommended path:" >>

LOCALE_FLAVOR ==
    "IN" :> [politeness |-> <<"Kindly let me know your thoughts.", "Please advise if this works for you.", "Requesting your approval to proceed.">>,
             greetings |-> <<"Hope you are doing well.", "Hope you|re keeping well.">>] @@
    "US" :> [politeness |-> <<"Would love your feedback.", "Let me know if you have any questions.", "If you're good with this, I|ll proceed.">>,
             greetings |-> <<"Hope you're doing well.", "Hope your week is going well.">>] @@
    "UK" :> [politeness |-> <<"Would you be happy to proceed?", "Grateful for your thoughts.", "Do let me know if that suits.">>,
             greetings |-> <<"Trust you're well.", "Hope all's well.">>] @@
    "Generic" :> [politeness |-> <<>>,
             greetings |-> <<>>] @@
    "AU" :> [politeness |-> <<"Keen to hear your thoughts.">>,
             greetings |-> <<"Hope you|re well.">>] @@
    "SG" :> [politeness |-> <<"Appreciate your advice.">>,
             greetings |-> <<"Hope you|re well.">>]

----------------------------------------------------------------------------
(* The generator of module random.  The Mersenne Twister is modelled by a  *)
(* linear congruential generator with RngMod states: what the code relies  *)
(* on is kept, a state that random.seed sets from its argument and that    *)
(* every draw advances, and draws that are a function of that state.       *)

RngMod == 16

\* random.seed(n)
Seeded(n) == n % RngMod

\* the state after one draw
NextRng(r) == (5 * r + 3) % RngMod

\* the index random.choice draws in a list of n items, from the state r
\* reached by the draw (lists start at 1 here)
ChoiceIndex(r, n) == ((r * n) \div RngMod) + 1

\* random.random() < 0.5, from the state r reached by the draw
BelowHalf(r) == 2 * r < RngMod

\* pick(items): the phrase and the generator state it leaves; an empty
\* list gives "" and draws nothing
pick(items, r) ==
    IF items = <<>> THEN [val |-> "", rng |-> r]
    ELSE [val |-> items[ChoiceIndex(NextRng(r), Len(items))], rng |-> NextRng(r)]

----------------------------------------------------------------------------
(* make_subject and compose_message                                        *)

\* Optional[str]: None is <<>>, the string v is <<v>>
None == <<>>
Some(v) == <<v>>

\* dict.get(key, default)
Get(table, key, default) == IF key \in DOMAIN table THEN table[key] ELSE default

SubjectCoreLen == 72

\* re.sub(r"\.$", "", core): $ is the end of the string, or the place
\* before a newline that ends the string
DropFinalPeriod(core) ==
    IF core # "" /\ Ch(core, Len(core)) = "."
    THEN SubSeq(core, 1, Len(core) - 1)
    ELSE IF Len(core) >= 2 /\ SubSeq(core, Len(core) - 1, Len(core)) = ".\n"
    THEN SubSeq(core, 1, Len(core) - 2) \o "\n"
    ELSE core

\* the core of the subject, after the two re.sub calls and core[:72]
SubjectCore(bs) ==
    LET first == IF bs # <<>> THEN bs[1] ELSE "Update"
        stripped == LStrip(first, {"-", "@"} \cup Whitespace)
    IN  Take(DropFinalPeriod(stripped), SubjectCoreLen)

\* f"{prefix} {core[:72]}".strip()
SubjectText(prefix, bs) == Strip(prefix \o " " \o SubjectCore(bs), Whitespace)

\* make_subject(tone, bullets): the subject and the generator state
make_subject(tone, bs, r) ==
    LET prefix == pick(Get(EMAIL_SUBJECT_PREFIX, tone, <<"Update:">>), r)
    IN  [val |-> SubjectText(prefix.val, bs), rng |-> prefix.rng]

\* "\n".join([f"@ {b}" for b in bullets[:5]])
BulletBlock(bs) == Join("\n", [i \in 1..Len(Take(bs, 5)) |-> "@ " \o bs[i]])

\* the executive tone asking for the bullets with every medium
WantsBulletsAnyMedium(req) == req.include_bullets \/ req.tone = "executive"

\* include_bullets or (tone == "executive" and medium in ("email", "doc"))
WantsBullets(req) ==
    req.include_bullets \/ (req.tone = "executive" /\ req.medium \in {"email", "doc"})

\* the core sentence, by length
CoreOf(req, bs) ==
    LET summary == IF bs # <<>> THEN Join(" ", Take(bs, 2)) ELSE req.text
    IN  IF req.length = "short" THEN summary \o "."
        ELSE IF req.length = "medium"
        THEN summary \o ". Requesting your input on the above so we can proceed without delay."
        ELSE summary \o ". Here's the context: "
                \o (IF Len(bs) > 2 THEN Join(", ", SubSeq(Take(bs, 5), 3, Len(Take(bs, 5))))
                    ELSE "see above")
                \o ". Next steps: we'll align on owners & timelines after your feedback."

\* [p for p in body_parts if p]
NonEmpty(parts) == SelectSeq(parts, LAMBDA part : part # "")

\* body_parts and msg of compose_message, given the four phrases picked
MessageOf(req, bs, opener, greeting, politeness, s_off) ==
    LET body_parts ==
            (IF req.medium \in {"email", "doc"} /\ greeting # "" THEN <<greeting>> ELSE <<>>)
         \o (IF opener # "" THEN <<opener>> ELSE <<>>)
         \o (IF WantsBullets(req) /\ bs # <<>> THEN <<BulletBlock(bs)>> ELSE <<>>)
         \o <<CoreOf(req, bs)>>
         \o (IF politeness # "" THEN <<politeness>> ELSE <<>>)
         \o (IF s_off # "" THEN <<s_off>> ELSE <<>>)
    IN  Join("\n\n", NonEmpty(body_parts))

\* add_subject alone asking for the subject
WantsSubjectAnyMedium(req) == req.add_subject

\* medium == "email" and add_subject
WantsSubject(req) == req.medium = "email" /\ req.add_subject

\* locale_bits
LocaleBits(req) == Get(LOCALE_FLAVOR, req.locale, LOCALE_FLAVOR["Generic"])

\* the buzzword pass of polish on one variant
Buzzed(v) ==
    [subject |-> IF v.subject # None /\ v.subject[1] # ""
                 THEN Some(apply_buzzwords(v.subject[1], 1)) ELSE v.subject,
     message |-> apply_buzzwords(v.message, 1)]

----------------------------------------------------------------------------
(* POST /polish.  FastAPI runs a handler declared with def in a thread of  *)
(* its pool, so the handlers of concurrent requests interleave; a step of  *)
(* a handler is one access to the shared generator, with the code that     *)
(* follows it up to the next access.                                       *)

Tones == {"formal", "casual", "executive", "empathetic", "assertive", "friendly", "persuasive"}
Mediums == {"email", "slack", "teams", "whatsapp", "text", "doc"}
Lengths == {"short", "medium", "long"}
Locales == {"US", "IN", "UK", "AU", "SG", "Generic"}

MinSuggestions == 1

\* the local variables of a handler that has not started
Started(req) ==
    [req |-> req, at |-> "seed", opener |-> "", greeting |-> "", politeness |-> "",
     message |-> "", v |-> [subject |-> None, message |-> ""], variants |-> <<>>]

Self(w) == workers[w]

\* random.seed(len(req.text) + req.suggestions)
Seed(w) ==
    /\ UNCHANGED <<pc, bulletVars, buzzVars, authVars>>
    /\ Self(w).at = "seed"
    /\ rng' = Seeded(Len(Self(w).req.text) + Self(w).req.suggestions)
    /\ workers' = [workers EXCEPT ![w].at = "opener"]

\* compose_message: opener = pick(OPENERS[tone])
PickOpener(w) ==
    /\ UNCHANGED <<pc, bulletVars, buzzVars, authVars>>
    /\ Self(w).at = "opener"
    /\ LET p == pick(OPENERS[Self(w).req.tone], rng)
       IN  /\ rng' = p.rng
           /\ workers' = [workers EXCEPT ![w].at = "greeting", ![w].opener = p.val]

\* compose_message: greeting = pick(locale_bits.get("greetings", []))
PickGreeting(w) ==
    /\ UNCHANGED <<pc, bulletVars, buzzVars, authVars>>
    /\ Self(w).at = "greeting"
    /\ LET p == pick(LocaleBits(Self(w).req).greetings, rng)
       IN  /\ rng' = p.rng
           /\ workers' = [workers EXCEPT ![w].at = "politeness", ![w].greeting = p.val]

\* compose_message: politeness = pick(locale_bits.get("politeness", []))
PickPoliteness(w) ==
    /\ UNCHANGED <<pc, bulletVars, buzzVars, authVars>>
    /\ Self(w).at = "politeness"
    /\ LET p == pick(LocaleBits(Self(w).req).politeness, rng)
       IN  /\ rng' = p.rng
           /\ workers' = [workers EXCEPT ![w].at = "sign_off", ![w].politeness = p.val]

\* compose_message: the body, s_off = sign_off(medium) and msg; without a
\* subject the variant is returned to polish
PickSignOff(w) ==
    /\ UNCHANGED <<pc, bulletVars, buzzVars, authVars>>
    /\ Self(w).at = "sign_off"
    /\ LET me == Self(w)
           p == pick(Get(SIGN_OFF, me.req.medium, <<"">>), rng)
           msg == MessageOf(me.req, to_bullets(me.req.text), me.opener, me.greeting,
                            me.politeness, p.val)
       IN  /\ rng' = p.rng
           /\ workers' = [workers EXCEPT
                  ![w].at = IF WantsSubject(me.req) THEN "subject" ELSE "coin",
                  ![w].opener = "", ![w].greeting = "", ![w].politeness = "",
                  ![w].message = IF WantsSubject(me.req) THEN msg ELSE "",
                  ![w].v = IF WantsSubject(me.req) THEN me.v
                           ELSE [subject |-> None, message |-> msg]]

\* compose_message: subj = make_subject(tone, bullets), and the return
MakeSubject(w) ==
    /\ UNCHANGED <<pc, bulletVars, buzzVars, authVars>>
    /\ Self(w).at = "subject"
    /\ LET me == Self(w)
           subj == make_subject(me.req.tone, to_bullets(me.req.text), rng)
       IN  /\ rng' = subj.rng
           /\ workers' = [workers EXCEPT
                  ![w].at = "coin", ![w].message = "",
                  ![w].v = [subject |-> Some(subj.val), message |-> me.message]]

\* polish: if random.random() < 0.5 the buzzword pass; variants.append(v);
\* the next round of the loop, or the return after the last one
Coin(w) ==
    /\ UNCHANGED <<pc, bulletVars, buzzVars, authVars>>
    /\ Self(w).at = "coin"
    /\ LET me == Self(w)
           r == NextRng(rng)
           v == IF BelowHalf(r) THEN Buzzed(me.v) ELSE me.v
           variants == Append(me.variants, v)
       IN  /\ rng' = r
           /\ workers' = [workers EXCEPT
                  ![w].at = IF Len(variants) < me.req.suggestions THEN "opener" ELSE "done",
                  ![w].v = [subject |-> None, message |-> ""],
                  ![w].variants = variants]

\* the variants of the response of a handler that has returned
Returned(w) == Self(w).at = "done"

----------------------------------------------------------------------------
(* Inputs of /polish                                                       *)

MaxSuggestions == 2

LongBullet ==
    "Please review the quarterly infrastructure migration plan before Friday.x"

PolishTexts ==
    { "", "-", "Done..", "a;b;c;d;e;f", "- Please help.\nask me; fix the plan",
      LongBullet \o "; ok" }

InTones == {"formal", "executive", "friendly"}
InMediums == {"email", "slack", "doc"}
InLengths == {"short", "long"}
InLocales == {"Generic", "IN"}

PolishRequests ==
    [text : PolishTexts, tone : InTones, medium : InMediums, length : InLengths,
     locale : InLocales, suggestions : MinSuggestions..MaxSuggestions,
     add_subject : BOOLEAN, include_bullets : BOOLEAN]

\* the requests handled concurrently: equal and different seeds, with and
\* without a subject
ConcurrentRequests ==
    [text : {"ask me"}, tone : {"casual"}, medium : {"email"},
     length : {"short"}, locale : {"Generic"}, suggestions : MinSuggestions..MaxSuggestions,
     add_subject : {TRUE}, include_bullets : {FALSE}]

IdleBullets == text = "" /\ bullets = <<>>
IdleBuzz == s = "" /\ intensity = 0 /\ transformed = ""
IdlePolish == rng = 0 /\ workers = <<>>
IdleAuth == PROXY_SECRET = None /\ request = <<>> /\ response = <<>>

InitBullets ==
    /\ pc = "ready"
    /\ text \in BulletTexts
    /\ bullets = <<>>
    /\ IdleBuzz
    /\ IdlePolish
    /\ IdleAuth

CallToBullets ==
    /\ pc = "ready"
    /\ pc' = "returned"
    /\ bullets' = to_bullets(text)
    /\ UNCHANGED <<text, buzzVars, polishVars, authVars>>

NextBullets == CallToBullets

SpecBullets == InitBullets /\ [][NextBullets]_vars


InitBuzz ==
    /\ pc = "ready"
    /\ s \in BuzzTexts
    /\ intensity \in 0..MaxIntensity
    /\ transformed = ""
    /\ IdleBullets
    /\ IdlePolish
    /\ IdleAuth

\* POST /buzzwordify
buzzwordify ==
    /\ pc = "ready"
    /\ pc' = "returned"
    /\ transformed' = apply_buzzwords(s, intensity)
    /\ UNCHANGED <<bulletVars, s, intensity, polishVars, authVars>>

NextBuzz == buzzwordify

SpecBuzz == InitBuzz /\ [][NextBuzz]_vars

\* one request, handled alone
InitPolish ==
    /\ pc = "ready"
    /\ rng = 0
    /\ workers \in [{1} -> {Started(req) : req \in PolishRequests}]
    /\ IdleBullets
    /\ IdleBuzz
    /\ IdleAuth

\* two requests in flight at once
InitConcurrent ==
    /\ pc = "ready"
    /\ rng = 0
    /\ workers \in [{1, 2} -> {Started(req) : req \in ConcurrentRequests}]
    /\ IdleBullets
    /\ IdleBuzz
    /\ IdleAuth

NextPolish ==
    \/ \E w \in DOMAIN workers : Seed(w)
    \/ \E w \in DOMAIN workers : PickOpener(w)
    \/ \E w \in DOMAIN workers : PickGreeting(w)
    \/ \E w \in DOMAIN workers : PickPoliteness(w)
    \/ \E w \in DOMAIN workers : PickSignOff(w)
    \/ \E w \in DOMAIN workers : MakeSubject(w)
    \/ \E w \in DOMAIN workers : Coin(w)

SpecPolish == InitPolish /\ [][NextPolish]_vars

SpecConcurrent == InitConcurrent /\ [][NextPolish]_vars

----------------------------------------------------------------------------
(* The routes and require_proxy_secret                                     *)

\* the routes declared with dependencies=[Depends(require_proxy_secret)]
ProtectedRoutes == {"/polish", "/buzzwordify", "/reply-suggestions", "/phrases"}

\* the routes declared without a dependency
OpenRoutes == {"/", "/health"}

Routes == ProtectedRoutes \cup OpenRoutes

\* truth value of an Optional[str]: None and "" are false
Truthy(opt) == opt # None /\ opt[1] # ""

\* require_proxy_secret(header): the set of the HTTPException it raises,
\* empty when it returns
require_proxy_secret(header) ==
    IF Truthy(PROXY_SECRET)
    THEN IF ~Truthy(header)
         THEN {[status_code |-> 401, detail |-> "Missing X-RapidAPI-Proxy-Secret header"]}
         ELSE IF header # PROXY_SECRET
         THEN {[status_code |-> 401, detail |-> "Invalid X-RapidAPI-Proxy-Secret header"]}
         ELSE {}
    ELSE {}

\* what the dependencies of a route answer for the request
Dependencies(route, header) ==
    IF route \in ProtectedRoutes THEN require_proxy_secret(header) ELSE {}

\* the values of the environment variable and of the header
SecretValues == {"s3cret", "other"}
Optional(values) == {None} \cup {Some(v) : v \in values}

InitAuth ==
    /\ pc = "ready"
    /\ PROXY_SECRET \in Optional(SecretValues \cup {""})
    /\ request \in [route : Routes, header : Optional(SecretValues \cup {""})]
    /\ response = <<>>
    /\ IdleBullets
    /\ IdleBuzz
    /\ IdlePolish

\* the dependency raises: FastAPI answers with the exception and the
\* handler does not run
Reject ==
    /\ pc = "ready"
    /\ \E exc \in Dependencies(request.route, request.header) :
           response' = [status |-> exc.status_code, detail |-> exc.detail, handled |-> FALSE]
    /\ pc' = "returned"
    /\ UNCHANGED <<PROXY_SECRET, request, bulletVars, buzzVars, polishVars>>

\* the dependencies pass, or there are none: the handler runs and its
\* result is the response
Handle ==
    /\ pc = "ready"
    /\ Dependencies(request.route, request.header) = {}
    /\ pc' = "returned"
    /\ response' = [status |-> 200, detail |-> "", handled |-> TRUE]
    /\ UNCHANGED <<PROXY_SECRET, request, bulletVars, buzzVars, polishVars>>

NextAuth == Reject \/ Handle

SpecAuth == InitAuth /\ [][NextAuth]_vars

----------------------------------------------------------------------------
(* Claims about to_bullets (SpecBullets)                                   *)

\* the trimmed fragments to_bullets deduplicates
Fragments == Cleaned(Split(text))

\* the positions of the fragments no earlier fragment equals, ignoring case
FirstOccurrences ==
    {j \in 1..Len(Fragments) :
        \A k \in 1..(j - 1) : Lower(Fragments[k]) # Lower(Fragments[j])}

\* the i-th smallest first occurrence
NthFirst(i) ==
    CHOOSE j \in FirstOccurrences :
        Cardinality({k \in FirstOccurrences : k < j}) = i - 1

\* C2: to_bullets returns the trimmed fragments in first-occurrence order,
\* no two entries equal ignoring case, each entry with the casing of its
\* first occurrence, cut to the first 8 entries of that sequence.
C2_DedupFirstEight ==
    pc = "returned" =>
        /\ Len(bullets) <= 8
        /\ Len(bullets) = (IF Cardinality(FirstOccurrences) < 8
                           THEN Cardinality(FirstOccurrences) ELSE 8)
        /\ \A i \in 1..Len(bullets) : bullets[i] = Fragments[NthFirst(i)]
        /\ \A i, j \in 1..Len(bullets) :
               i # j => Lower(bullets[i]) # Lower(bullets[j])

\* a call that dropped a fragment differing from an earlier one only in
\* case, and cut more than 8 distinct fragments down to 8
C2_Witness ==
    /\ pc = "returned"
    /\ Len(bullets) = 8
    /\ Cardinality(FirstOccurrences) > 8
    /\ \E i, j \in 1..Len(Fragments) :
           /\ i < j
           /\ Fragments[i] # Fragments[j]
           /\ Lower(Fragments[i]) = Lower(Fragments[j])
           /\ \E k \in 1..Len(bullets) : bullets[k] = Fragments[i]

\* C3: no entry of the list to_bullets returns is the empty string.
C3_NoEmptyBullet ==
    pc = "returned" => \A i \in 1..Len(bullets) : bullets[i] # ""

\* C8: to_bullets applied to the newline-join of its own output returns
\* the same list.
C8_Idempotent ==
    pc = "returned" => to_bullets(Join("\n", bullets)) = bullets

----------------------------------------------------------------------------
(* Claims about apply_buzzwords (SpecBuzz)                                 *)

RECURSIVE TierApplied(_, _, _)
\* the first k pairs of a tier applied to str, one after the other
TierApplied(pairs, k, str) ==
    IF k = 0 THEN str
    ELSE LET before == TierApplied(pairs, k - 1, str)
         IN  IF before = "" THEN "" ELSE Sub(pairs[k][1], pairs[k][2], before)

Tier(n, str) ==
    TierApplied(BUZZWORD_MAP_LEVELS[n + 1], Len(BUZZWORD_MAP_LEVELS[n + 1]), str)

\* C4: apply_buzzwords(text, 0) is text, and for n >= 1
\* apply_buzzwords(text, n) is tier n's pairs applied in order to
\* apply_buzzwords(text, n - 1).
C4_Cumulative ==
    pc = "returned" =>
        IF intensity = 0 THEN transformed = s
        ELSE transformed = Tier(intensity, apply_buzzwords(s, intensity - 1))

\* a call where an earlier tier changed the text and the last tier, applied
\* to that output, gives something else than it gives on the original text
C4_Witness ==
    /\ pc = "returned"
    /\ intensity >= 2
    /\ apply_buzzwords(s, intensity - 1) # s
    /\ transformed # Tier(intensity, s)
    /\ transformed # apply_buzzwords(s, intensity - 1)

\* a whole word "use" at position i of the lowered text, followed by one
\* space and a word
UseBeforeWord(low, i) ==
    /\ Boundary(low, i)
    /\ StartsAt(low, i, "use ")
    /\ i + 4 <= Len(low)
    /\ Ch(low, i + 4) \in WordChars

\* C10: at intensity 3 the guarded entry for "use" replaces the word except
\* when "case" follows: a whole-word "use" followed by a space and a word
\* other than "case" becomes "utilize", and a "use" followed by "case" stays.
C10_GuardedUseRule ==
    (pc = "returned" /\ intensity = 3) =>
        LET low == Lower(s)
        IN  /\ (\E i \in 1..Len(low) :
                    UseBeforeWord(low, i) /\ ~StartsAt(low, i + 4, "case"))
                => Contains(transformed, "utilize")
            /\ (\E i \in 1..Len(low) :
                    UseBeforeWord(low, i) /\ StartsAt(low, i + 4, "case"))
                => Contains(Lower(transformed), "use case")

----------------------------------------------------------------------------
(* Claims about compose_message and /polish (SpecPolish, SpecConcurrent)   *)

\* a handler whose compose_message call has just returned the variant v
Composed(w) == Self(w).at = "coin"

BulletsOf(w) == to_bullets(Self(w).req.text)

RECURSIVE BlockLines(_, _)
\* the first k bullets, each after a bullet marker, joined by newlines
BlockLines(bs, k) ==
    IF k = 0 THEN ""
    ELSE IF k = 1 THEN "@ " \o bs[1]
    ELSE BlockLines(bs, k - 1) \o "\n@ " \o bs[k]

\* the message holds the block of the first up-to-5 bullets between the
\* opener and the core summary
BlockPresent(w) ==
    LET bs == BulletsOf(w)
        block == BlockLines(bs, IF Len(bs) < 5 THEN Len(bs) ELSE 5)
        summary == IF Len(bs) = 1 THEN bs[1] ELSE bs[1] \o " " \o bs[2]
    IN  /\ bs # <<>>
        /\ \E i \in 1..Len(OPENERS[Self(w).req.tone]) :
               Contains(Self(w).v.message,
                        OPENERS[Self(w).req.tone][i] \o "\n\n" \o block \o "\n\n" \o summary \o ".")

\* C5: the bullet block is in the composed message if and only if a bullet
\* was extracted and (include_bullets or (tone is executive and medium is
\* email or doc)).
C5_BulletBlock ==
    \A w \in DOMAIN workers :
        Composed(w) =>
            (BlockPresent(w) <=>
                /\ BulletsOf(w) # <<>>
                /\ \/ Self(w).req.include_bullets
                   \/ /\ Self(w).req.tone = "executive"
                      /\ Self(w).req.medium \in {"email", "doc"})

\* an executive email composed without include_bullets from more than 5
\* bullets, with the block in the message
C5_Witness ==
    \E w \in DOMAIN workers :
        /\ Composed(w)
        /\ Self(w).req.tone = "executive"
        /\ Self(w).req.medium = "email"
        /\ ~Self(w).req.include_bullets
        /\ Len(BulletsOf(w)) > 5
        /\ BlockPresent(w)

SubjectAsClaimed(req, v) ==
    /\ (v.subject # None) <=> (req.medium = "email" /\ req.add_subject)
    /\ v.subject # Some("")

\* C6: a variant returned by compose_message, and a variant returned by
\* /polish after the buzzword pass, has a subject if and only if medium is
\* email and add_subject is true; otherwise it is null; it is never "".
C6_SubjectOnlyForEmail ==
    \A w \in DOMAIN workers :
        /\ Composed(w) => SubjectAsClaimed(Self(w).req, Self(w).v)
        /\ \A i \in 1..Len(Self(w).variants) :
               SubjectAsClaimed(Self(w).req, Self(w).variants[i])

\* a response to an email request with add_subject whose only bullet is
\* empty after trimming: every variant has a subject, and the buzzword pass
\* has rewritten one of them
C6_Witness ==
    \E w \in DOMAIN workers :
        /\ Returned(w)
        /\ Self(w).req.medium = "email" /\ Self(w).req.add_subject
        /\ BulletsOf(w) = <<"">>
        /\ \A i \in 1..Len(Self(w).variants) : Self(w).variants[i].subject # None
        /\ \E i \in 1..Len(Self(w).variants) :
               \A k \in 1..Len(EMAIL_SUBJECT_PREFIX[Self(w).req.tone]) :
                   Self(w).variants[i].subject[1] # EMAIL_SUBJECT_PREFIX[Self(w).req.tone][k]

\* the subject is the prefix alone, or the prefix, a space and a core of at
\* most 72 characters that starts with no dash or bullet marker and ends
\* with no period
SubjectWellFormed(subject, prefix) ==
    \/ subject = prefix
    \/ /\ StartsAt(subject, 1, prefix \o " ")
       /\ LET core == SubSeq(subject, Len(prefix) + 2, Len(subject))
          IN  /\ Len(core) <= 72
              /\ core # "" => Ch(core, 1) \notin {"-", "@"}
              /\ core # "" => Ch(core, Len(core)) # "."

\* C7: the subject make_subject returns is a prefix of the tone followed by
\* a core from the first bullet (or "Update") that has at most 72
\* characters, begins with no dash or bullet marker and ends with no period.
C7_SubjectCore ==
    \A w \in DOMAIN workers :
        (Composed(w) /\ Self(w).v.subject # None) =>
            \E k \in 1..Len(EMAIL_SUBJECT_PREFIX[Self(w).req.tone]) :
                SubjectWellFormed(Self(w).v.subject[1],
                                  EMAIL_SUBJECT_PREFIX[Self(w).req.tone][k])

\* C1: identical /polish requests handled in one process return identical
\* variant lists, in every interleaving with other /polish requests.
C1_RepeatableVariants ==
    \A w1, w2 \in DOMAIN workers :
        (Returned(w1) /\ Returned(w2) /\ Self(w1).req = Self(w2).req)
            => Self(w1).variants = Self(w2).variants

----------------------------------------------------------------------------
(* Claim about the proxy secret (SpecAuth)                                 *)

\* C9: with PROXY_SECRET set, every request whose header is missing or
\* differs from it is rejected with 401 and its handler produces no result;
\* without it every request is allowed.  (PROXY_SECRET set is read here as
\* set to a non-empty value, which is what the code tests.)
C9_SecretRequired ==
    pc = "returned" =>
        /\ (Truthy(PROXY_SECRET) /\ request.header # PROXY_SECRET)
               => (response.status = 401 /\ ~response.handled)
        /\ PROXY_SECRET = None => (response.status = 200 /\ response.handled)

====
